---------------------------- MODULE Spec2Model ----------------------------
(***************************************************************************)
(* A model of src/model.py: the encoder-decoder transformer built by       *)
(* build_transformer and its three entry points encode, decode, project.   *)
(*                                                                         *)
(* Module objects live in a heap (mods): a sequence of records, the index  *)
(* being the object's identity.  A forward call is recorded as a tape: the *)
(* sequence of tensor operations it performs, each node carrying the       *)
(* module it belongs to, its argument nodes, the shape of its result and   *)
(* the storage it lives in.  Numbers are fixed-point, in thousandths.      *)
(***************************************************************************)
EXTENDS Integers, Sequences, FiniteSets, TLC

VARIABLES pc, args, mods, transformer, error,
          training, rng, attention_scores, last, ncalls,
          att_in, att_out

vars == <<pc, args, mods, transformer, error,
          training, rng, attention_scores, last, ncalls,
          att_in, att_out>>

buildVars == <<args, mods, transformer, error>>
fwdVars == <<training, rng, attention_scores, last, ncalls>>
attVars == <<att_in, att_out>>

(***************************************************************************)
(* Bounds of the model.                                                    *)
(***************************************************************************)
MaxDModel == 4
MaxH == 2
MaxN == 2
MaxSeqLen == 2
MaxCalls == 2
MaxAttnLen == 2

Unit == 10 * 100
VocabSizes == {3}
FeedForwardSizes == {8}
DropoutRates == {0, 10}
ModelDropoutRates == {10}
Batches == {2}

Min(a, b) == IF a <= b THEN a ELSE b
Max(a, b) == IF a >= b THEN a ELSE b

(***************************************************************************)
(* Fixed-point arithmetic: x stands for x / Unit.                          *)
(***************************************************************************)
LogTenThousand == 9210

\* e^(-f/Unit) for 0 <= f < Unit, by its Taylor polynomial
ExpFrac(f) ==
    LET t2 == (f * f) \div (2 * Unit)
        t3 == (t2 * f) \div (3 * Unit)
        t4 == (t3 * f) \div (4 * Unit)
        t5 == (t4 * f) \div (5 * Unit)
        t6 == (t5 * f) \div (6 * Unit)
    IN  Unit - f + t2 - t3 + t4 - t5 + t6

RECURSIVE ExpNegFrom(_, _)
ExpNegFrom(acc, x) ==
    IF acc = 0 THEN 0
    ELSE IF x >= Unit THEN ExpNegFrom((acc * 368) \div Unit, x - Unit)
    ELSE (acc * ExpFrac(x)) \div Unit

\* torch.exp(x) for x <= 0; exp of a very negative number underflows to 0
Exp(x) == ExpNegFrom(Unit, 0 - x)

RECURSIVE SinTerms(_, _, _)
SinTerms(term, x, n) ==
    IF term = 0 \/ n > 15 THEN 0
    ELSE term - SinTerms((((term * x) \div Unit) * x) \div (Unit * (n + 1) * (n + 2)),
                         x, n + 2)

\* torch.sin and torch.cos for x >= 0
Sin(x) == SinTerms(x, x, 1)
Cos(x) == SinTerms(Unit, x, 0)


(***************************************************************************)
(* Construction.  A build state st = [mods, err] is the heap so far and    *)
(* the exception raised, "" while none is.                                 *)
(***************************************************************************)
NoModule == 0

Alloc(st, rec) ==
    IF st.err # "" THEN st ELSE [st EXCEPT !.mods = Append(@, rec)]

Raise(st, e) ==
    IF st.err # "" THEN st ELSE [st EXCEPT !.err = e]

\* the object constructed last
Newest(st) == Len(st.mods)

InputEmbedding(st, d_model, vocab_size) ==
    Alloc(st, [cls |-> "InputEmbedding", d_model |-> d_model,
               vocab_size |-> vocab_size])

\* torch.arange(0, d_model, 2) scaled and exponentiated
DivTerm(d_model) ==
    [k \in 0 .. ((d_model + 1) \div 2) - 1 |->
        Exp(0 - ((2 * k * LogTenThousand) \div d_model))]

\* the number of columns of pe[:, start::2]
StridedColumns(start, d_model) ==
    IF d_model <= start THEN 0 ELSE (d_model - start + 1) \div 2

\* an assignment to a slice broadcasts a source dimension of size 1
SetItemOk(target_cols, source_cols) ==
    source_cols = target_cols \/ source_cols = 1

SinColumn(i) == i \div 2
CosColumn(i) == (i - 1) \div 2

PositionTable(d_model, seq_len) ==
    LET div_term == DivTerm(d_model)
    IN  [position \in 0 .. seq_len - 1 |->
            [i \in 0 .. d_model - 1 |->
                IF i % 2 = 0
                THEN Sin(position * div_term[SinColumn(i)])
                ELSE Cos(position * div_term[CosColumn(i)])]]

PositionalEncoding(st, d_model, seq_len, dropout) ==
    LET source_cols == (d_model + 1) \div 2
    IN  IF /\ SetItemOk(StridedColumns(0, d_model), source_cols)
           /\ SetItemOk(StridedColumns(1, d_model), source_cols)
        THEN Alloc(st, [cls |-> "PositionalEncoding", d_model |-> d_model,
                        seq_len |-> seq_len, dropout |-> dropout,
                        pe |-> PositionTable(d_model, seq_len)])
        ELSE Raise(st, "RuntimeError")

LayerNormalization(st) ==
    Alloc(st, [cls |-> "LayerNormalization"])

FeedForwardBlock(st, d_model, d_ff, dropout) ==
    Alloc(st, [cls |-> "FeedForwardBlock", d_model |-> d_model,
               d_ff |-> d_ff, dropout |-> dropout])

MultiHeadAttentionBlock(st, d_model, h, dropout) ==
    IF d_model % h # 0 THEN Raise(st, "AssertionError")
    ELSE Alloc(st, [cls |-> "MultiHeadAttentionBlock", d_model |-> d_model,
                    h |-> h, d_k |-> d_model \div h, dropout |-> dropout])

ResidualConnection(st, dropout) ==
    LET s1 == LayerNormalization(st)
    IN  Alloc(s1, [cls |-> "ResidualConnection", dropout |-> dropout,
                   norm |-> Newest(s1)])

RECURSIVE ResidualConnections(_, _, _, _)
\* [ResidualConnection(dropout) for _ in range(n)]: the heap and the list
ResidualConnections(st, dropout, n, list) ==
    IF n = 0 THEN [st |-> st, list |-> list]
    ELSE LET s1 == ResidualConnection(st, dropout)
         IN  ResidualConnections(s1, dropout, n - 1, Append(list, Newest(s1)))

EncoderBlock(st, self_attention_block, feed_forward_block, dropout) ==
    LET rc == ResidualConnections(st, dropout, 2, <<>>)
    IN  Alloc(rc.st, [cls |-> "EncoderBlock",
                      self_attention_block |-> self_attention_block,
                      feed_forward_block |-> feed_forward_block,
                      residual_connections |-> rc.list])

DecoderBlock(st, self_attention_block, cross_attention_block, feed_forward_block, dropout) ==
    LET rc == ResidualConnections(st, dropout, 3, <<>>)
    IN  Alloc(rc.st, [cls |-> "DecoderBlock",
                      self_attention_block |-> self_attention_block,
                      cross_attention_block |-> cross_attention_block,
                      feed_forward_block |-> feed_forward_block,
                      residual_connection |-> rc.list])

Encoder(st, layers) ==
    LET s1 == LayerNormalization(st)
    IN  Alloc(s1, [cls |-> "Encoder", layers |-> layers, norm |-> Newest(s1)])

Decoder(st, layers) ==
    LET s1 == LayerNormalization(st)
    IN  Alloc(s1, [cls |-> "Decoder", layers |-> layers, norm |-> Newest(s1)])

ProjectionLayer(st, d_model, vocab_size) ==
    Alloc(st, [cls |-> "ProjectionLayer", d_model |-> d_model,
               vocab_size |-> vocab_size])

\* one pass of the loop of lines 257-261
EncoderLoopBody(st, a) ==
    LET s1 == MultiHeadAttentionBlock(st, a.d_model, a.h, a.dropout)
        encoder_self_attention_block == Newest(s1)
        s2 == FeedForwardBlock(s1, a.d_model, a.d_ff, a.dropout)
        feed_forward_block == Newest(s2)
    IN  EncoderBlock(s2, encoder_self_attention_block, feed_forward_block,
                     a.dropout)

\* one attention block built and used for both self and cross attention
DecoderLoopBodyShared(st, a) ==
    LET s1 == MultiHeadAttentionBlock(st, a.d_model, a.h, a.dropout)
        decoder_self_attention_block == Newest(s1)
        s3 == FeedForwardBlock(s1, a.d_model, a.d_ff, a.dropout)
        feed_forward_block == Newest(s3)
    IN  DecoderBlock(s3, decoder_self_attention_block,
                     decoder_self_attention_block, feed_forward_block,
                     a.dropout)

\* one pass of the loop of lines 264-269
DecoderLoopBody(st, a) ==
    LET s1 == MultiHeadAttentionBlock(st, a.d_model, a.h, a.dropout)
        decoder_self_attention_block == Newest(s1)
        s2 == MultiHeadAttentionBlock(s1, a.d_model, a.h, a.dropout)
        decoder_cross_attention_block == Newest(s2)
        s3 == FeedForwardBlock(s2, a.d_model, a.d_ff, a.dropout)
        feed_forward_block == Newest(s3)
    IN  DecoderBlock(s3, decoder_self_attention_block,
                     decoder_cross_attention_block, feed_forward_block,
                     a.dropout)

RECURSIVE EncoderBlocks(_, _, _, _)
EncoderBlocks(st, a, n, encoder_blocks) ==
    IF n = 0 \/ st.err # "" THEN [st |-> st, list |-> encoder_blocks]
    ELSE LET s1 == EncoderLoopBody(st, a)
         IN  EncoderBlocks(s1, a, n - 1, Append(encoder_blocks, Newest(s1)))

RECURSIVE DecoderBlocks(_, _, _, _)
DecoderBlocks(st, a, n, decoder_blocks) ==
    IF n = 0 \/ st.err # "" THEN [st |-> st, list |-> decoder_blocks]
    ELSE LET s1 == DecoderLoopBody(st, a)
         IN  DecoderBlocks(s1, a, n - 1, Append(decoder_blocks, Newest(s1)))

\* the heap build_transformer leaves and the exception it raised; the
\* Transformer is the object constructed last
BuildTransformer(a) ==
    LET s0 == [mods |-> <<>>, err |-> ""]
        s1 == InputEmbedding(s0, a.d_model, a.src_vocab_size)
        src_embed == Newest(s1)
        s2 == InputEmbedding(s1, a.d_model, a.tgt_vocab_size)
        tgt_embed == Newest(s2)
        s3 == PositionalEncoding(s2, a.d_model, a.src_seq_len, a.dropout)
        src_pos == Newest(s3)
        s4 == PositionalEncoding(s3, a.d_model, a.tgt_seq_len, a.dropout)
        tgt_pos == Newest(s4)
        enc == EncoderBlocks(s4, a, a.N, <<>>)
        dec == DecoderBlocks(enc.st, a, a.N, <<>>)
        s5 == Encoder(dec.st, enc.list)
        encoder == Newest(s5)
        s6 == Decoder(s5, dec.list)
        decoder == Newest(s6)
        s7 == ProjectionLayer(s6, a.d_model, a.tgt_vocab_size)
        projection_layer == Newest(s7)
    IN  Alloc(s7, [cls |-> "Transformer", encoder |-> encoder,
                   decoder |-> decoder, src_embed |-> src_embed,
                   tgt_embed |-> tgt_embed, src_pos |-> src_pos,
                   tgt_pos |-> tgt_pos,
                   projection_layer |-> projection_layer])

BuildArgs ==
    [src_vocab_size : VocabSizes, tgt_vocab_size : VocabSizes,
     src_seq_len : 1 .. MaxSeqLen, tgt_seq_len : 1 .. MaxSeqLen,
     d_model : 1 .. MaxDModel, N : 0 .. MaxN, h : 1 .. MaxH,
     dropout : ModelDropoutRates, d_ff : FeedForwardSizes]

NoCall == [fn |-> "none"]
NoAttention == [d_k |-> 0]

(***************************************************************************)
(* Tensor shapes.                                                          *)
(***************************************************************************)
RECURSIVE Numel(_)
Numel(shape) ==
    IF shape = <<>> THEN 1 ELSE Head(shape) * Numel(Tail(shape))

SetLastDim(shape, n) == [shape EXCEPT ![Len(shape)] = n]

\* dimensions i and j exchanged; a negative index counts from the end
Dim(shape, i) == IF i < 0 THEN Len(shape) + i + 1 ELSE i + 1

Transposed(shape, i, j) ==
    [shape EXCEPT ![Dim(shape, i)] = shape[Dim(shape, j)],
                  ![Dim(shape, j)] = shape[Dim(shape, i)]]

LeftPad(shape, n) ==
    [i \in 1 .. n |->
        IF i <= n - Len(shape) THEN 1 ELSE shape[i - (n - Len(shape))]]

Broadcastable(a, b) ==
    LET n == Max(Len(a), Len(b))
    IN  \A i \in 1 .. n :
            \/ LeftPad(a, n)[i] = LeftPad(b, n)[i]
            \/ LeftPad(a, n)[i] = 1
            \/ LeftPad(b, n)[i] = 1

BroadcastShape(a, b) ==
    LET n == Max(Len(a), Len(b))
    IN  [i \in 1 .. n |->
            IF LeftPad(a, n)[i] = 1 THEN LeftPad(b, n)[i] ELSE LeftPad(a, n)[i]]

\* b expands to a without changing a: what an in-place operation needs
ExpandsTo(b, a) ==
    /\ Len(b) <= Len(a)
    /\ \A i \in 1 .. Len(a) :
            LeftPad(b, Len(a))[i] = a[i] \/ LeftPad(b, Len(a))[i] = 1

\* the shape given to view, its one -1 replaced by the size it stands for
ViewShape(shape, target) ==
    LET known == Numel([i \in 1 .. Len(target) |->
                           IF target[i] = -1 THEN 1 ELSE target[i]])
    IN  [i \in 1 .. Len(target) |->
            IF target[i] = -1 THEN Numel(shape) \div known ELSE target[i]]

(***************************************************************************)
(* The tape of a forward call.  A context c carries the tape so far, the   *)
(* random generator's state, the attribute writes made to modules          *)
(* (attention_scores), the exception raised and the tensor (node index)    *)
(* the last operation returned.                                            *)
(***************************************************************************)
NoTensor == 0

\* as an operand: the tensor the context holds in ret, that is the result
\* of the statement before
Last == -1

Arg(c, x) == IF x = Last THEN c.ret ELSE x

Node(op, mod, attr, nodeArgs, shape) ==
    [op |-> op, mod |-> mod, attr |-> attr, args |-> nodeArgs, shape |-> shape,
     buf |-> 0, owner |-> "call", contig |-> TRUE, draw |-> 0]

Throw(c, e) == IF c.err # "" THEN c ELSE [c EXCEPT !.err = e]

\* a new tensor in storage of its own
Fresh(c, n) ==
    IF c.err # "" THEN c
    ELSE [c EXCEPT !.tape = Append(@, [n EXCEPT !.buf = Len(c.tape) + 1]),
                   !.ret = Len(c.tape) + 1]

\* a new tensor object over the storage of tensor x
Alias(c, n, x) ==
    IF c.err # "" THEN c
    ELSE [c EXCEPT !.tape = Append(@, [n EXCEPT !.buf = c.tape[Arg(c, x)].buf,
                                                !.owner = c.tape[Arg(c, x)].owner]),
                   !.ret = Len(c.tape) + 1]

Return(c, x) == IF c.err # "" THEN c ELSE [c EXCEPT !.ret = Arg(c, x)]

ShapeOf(c, x) == c.tape[Arg(c, x)].shape

IsContiguous(c, x) == c.tape[Arg(c, x)].contig

\* a tensor the caller passes in
Input(c, name, shape) ==
    Fresh(c, [Node("input", NoModule, name, <<>>, shape) EXCEPT !.owner = "caller"])

\* a dropout layer that ignores the evaluation mode
DropoutAlways(c, x, p) ==
    IF c.err # "" THEN c
    ELSE IF p = 0 THEN Return(c, x)
    ELSE [Fresh(c, [Node("dropout", NoModule, "", <<Arg(c, x)>>, ShapeOf(c, x))
                      EXCEPT !.draw = c.rng + 1])
            EXCEPT !.rng = c.rng + 1]

\* nn.Dropout: the identity (the very same tensor) in evaluation mode and
\* at rate 0, otherwise a random draw from the generator
Dropout(c, x, p) ==
    IF c.err # "" THEN c
    ELSE IF ~c.training \/ p = 0 THEN Return(c, x)
    ELSE [Fresh(c, [Node("dropout", NoModule, "", <<Arg(c, x)>>, ShapeOf(c, x))
                      EXCEPT !.draw = c.rng + 1])
            EXCEPT !.rng = c.rng + 1]

\* nn.Linear(in_features, out_features)
Linear(c, m, attr, x, in_features, out_features) ==
    IF c.err # "" THEN c
    ELSE IF ShapeOf(c, x)[Len(ShapeOf(c, x))] # in_features THEN Throw(c, "RuntimeError")
    ELSE Fresh(c, Node("linear", m, attr, <<Arg(c, x)>>,
                       SetLastDim(ShapeOf(c, x), out_features)))

Elementwise(c, op, attr, x) ==
    IF c.err # "" THEN c
    ELSE Fresh(c, Node(op, NoModule, attr, <<Arg(c, x)>>, ShapeOf(c, x)))

\* x + y, x - y with broadcasting
Binary(c, op, x, y) ==
    IF c.err # "" THEN c
    ELSE IF ~Broadcastable(ShapeOf(c, x), ShapeOf(c, y))
    THEN Throw(c, "RuntimeError")
    ELSE Fresh(c, Node(op, NoModule, "", <<Arg(c, x), Arg(c, y)>>,
                       BroadcastShape(ShapeOf(c, x), ShapeOf(c, y))))

Transpose(c, x, i, j) ==
    IF c.err # "" THEN c
    ELSE LET sh == ShapeOf(c, x)
         IN  Alias(c, [Node("transpose", NoModule, "", <<Arg(c, x)>>,
                            Transposed(sh, i, j))
                         EXCEPT !.contig = /\ IsContiguous(c, x)
                                           /\ \/ sh[Dim(sh, i)] = 1
                                              \/ sh[Dim(sh, j)] = 1], x)

\* the tensor itself when it is contiguous, else a copy
Contiguous(c, x) ==
    IF c.err # "" THEN c
    ELSE IF IsContiguous(c, x) THEN Return(c, x)
    ELSE Fresh(c, Node("contiguous", NoModule, "", <<Arg(c, x)>>, ShapeOf(c, x)))

View(c, x, target) ==
    IF c.err # "" THEN c
    ELSE LET sh == ShapeOf(c, x)
             out == ViewShape(sh, target)
         IN  IF ~IsContiguous(c, x) \/ Numel(out) # Numel(sh)
             THEN Throw(c, "RuntimeError")
             ELSE Alias(c, Node("view", NoModule, "", <<Arg(c, x)>>, out), x)

\* x @ y on the last two dimensions, the leading ones broadcast
Matmul(c, x, y) ==
    IF c.err # "" THEN c
    ELSE LET a == ShapeOf(c, x)
             b == ShapeOf(c, y)
             ba == SubSeq(a, 1, Len(a) - 2)
             bb == SubSeq(b, 1, Len(b) - 2)
         IN  IF a[Len(a)] # b[Len(b) - 1] \/ ~Broadcastable(ba, bb)
             THEN Throw(c, "RuntimeError")
             ELSE Fresh(c, Node("matmul", NoModule, "", <<Arg(c, x), Arg(c, y)>>,
                                BroadcastShape(ba, bb)
                                    \o <<a[Len(a) - 1], b[Len(b)]>>))

\* x.masked_fill_(cond, value): writes into the storage of x
MaskedFillInPlace(c, x, cond, value) ==
    IF c.err # "" THEN c
    ELSE IF ~ExpandsTo(ShapeOf(c, cond), ShapeOf(c, x))
    THEN Throw(c, "RuntimeError")
    ELSE Alias(c, [Node("masked_fill_", NoModule, value,
                        <<Arg(c, x), Arg(c, cond)>>, ShapeOf(c, x))
                     EXCEPT !.contig = IsContiguous(c, x)], x)

(***************************************************************************)
(* The forward methods.  Each takes the context and the tensors it is      *)
(* given and returns the context after it, its result in ret.  They read   *)
(* the heap mods and never change it.                                      *)
(***************************************************************************)
InputEmbeddingForward(c, m, x) ==
    Elementwise(Fresh(c, Node("embedding", m, "embedding", <<Arg(c, x)>>,
                              ShapeOf(c, x) \o <<mods[m].d_model>>)),
                "mul", "sqrt(d_model)", Last)

\* self.pe as a tensor of the call: the buffer the model owns
PositionTableBuffer(c, m) ==
    Fresh(c, [Node("buffer", m, "pe", <<>>, <<1, mods[m].seq_len, mods[m].d_model>>)
                EXCEPT !.owner = "model"])

\* self.pe[:, :length, :]
SliceRows(c, m, length) ==
    Alias(c, Node("slice", NoModule, "", <<c.ret>>,
                  <<1, Min(length, mods[m].seq_len), mods[m].d_model>>), Last)

\* .requires_grad_(False): the tensor itself
RequiresGrad(c) ==
    Alias(c, Node("requires_grad_", NoModule, "False", <<c.ret>>, ShapeOf(c, Last)),
          Last)

\* the whole table added, not the rows up to the input's length
PositionalEncodingForwardNoSlice(c, m, x) ==
    IF c.err # "" THEN c
    ELSE Dropout(Binary(PositionTableBuffer(c, m), "add", Arg(c, x), Last),
                 Last, mods[m].dropout)

PositionalEncodingForward(c, m, x) ==
    IF c.err # "" THEN c
    ELSE Dropout(Binary(RequiresGrad(SliceRows(PositionTableBuffer(c, m), m,
                                               ShapeOf(c, x)[2])),
                        "add", Arg(c, x), Last),
                 Last, mods[m].dropout)

\* alpha * (x - mean) / (std + eps) + bias of the mean and std in the two
\* tensors before ret
Normalize(c, m, x) ==
    Fresh(c, Node("layer_norm", m, "alpha,bias", <<x, c.ret - 1, c.ret>>,
                  BroadcastShape(ShapeOf(c, x), ShapeOf(c, Last))))

LayerNormalizationForward(c, m, x) ==
    IF c.err # "" THEN c
    ELSE Normalize(
             Fresh(Fresh(c, Node("mean", NoModule, "", <<Arg(c, x)>>,
                                 SetLastDim(ShapeOf(c, x), 1))),
                   Node("std", NoModule, "", <<Arg(c, x)>>,
                        SetLastDim(ShapeOf(c, x), 1))),
             m, Arg(c, x))

\* self.linear_2(self.dropout(torch.relu(self.linear_1(x))))
FeedForwardBlockForward(c, m, x) ==
    Linear(Dropout(Elementwise(Linear(c, m, "linear_1", x,
                                      mods[m].d_model, mods[m].d_ff),
                               "relu", "", Last),
                   Last, mods[m].dropout),
           m, "linear_2", Last, mods[m].d_ff, mods[m].d_model)

NoDropout == [none |-> TRUE, p |-> 0]
DropoutLayer(p) == [none |-> FALSE, p |-> p]

\* lines 127-128: the scores in ret filled in place where mask == 0
MaskScores(c, mask) ==
    IF mask = NoTensor \/ c.err # "" THEN c
    ELSE MaskedFillInPlace(Fresh(c, Node("eq", NoModule, "0", <<mask>>,
                                         ShapeOf(c, mask))),
                           c.ret, Last, "-1e9")

\* lines 130-131: the difference is computed and assigned to nothing; ret
\* stays the softmax output
DropoutExpression(c, dropout) ==
    IF dropout.none \/ c.err # "" THEN c
    ELSE Return(Binary(Dropout(c, Last, dropout.p), "sub", c.ret, Last), c.ret)

\* line 133: the product with the values first, attention_scores second
WeightedSum(c, value) ==
    IF c.err # "" THEN c
    ELSE [Matmul(c, Last, value) EXCEPT !.ret2 = c.ret]

\* MultiHeadAttentionBlock.attention: ret is the product with the values,
\* ret2 the attention_scores it returns second
Attention(c, query, key, value, mask, dropout) ==
    IF c.err # "" THEN c
    ELSE WeightedSum(
             DropoutExpression(
                 Elementwise(
                     MaskScores(
                         Elementwise(Matmul(Transpose(c, key, -2, -1),
                                            Arg(c, query), Last),
                                     "div", "sqrt(d_k)", Last),
                         mask),
                     "softmax", "dim=-1", Last),
                 dropout),
             Arg(c, value))

\* a local variable of MultiHeadAttentionBlock.forward bound to ret
Assign(c, name) ==
    IF c.err # "" THEN c ELSE [c EXCEPT !.local[name] = c.ret]

\* lines 136-138
Projections(c, m, q, k, v) ==
    Assign(Linear(Assign(Linear(Assign(Linear(c, m, "w_q", q,
                                              mods[m].d_model, mods[m].d_model),
                                       "query"),
                                m, "w_k", Arg(c, k),
                                mods[m].d_model, mods[m].d_model),
                         "key"),
                  m, "w_v", Arg(c, v), mods[m].d_model, mods[m].d_model),
           "value")

\* lines 145-147, for one of the locals:
\* (Batch, Seq_Len, d_model) --> (Batch, h, Seq_Len, d_k)
SplitHeads(c, m, name) ==
    IF c.err # "" THEN c
    ELSE Assign(Transpose(View(Contiguous(c, c.local[name]), Last,
                               <<ShapeOf(c, c.local[name])[1], -1,
                                 mods[m].h, mods[m].d_k>>),
                          Last, 1, 2),
                name)

\* line 150, the call
AttentionOfLocals(c, m, mask) ==
    IF c.err # "" THEN c
    ELSE Attention(c, c.local.query, c.local.key, c.local.value, mask,
                   DropoutLayer(mods[m].dropout))

\* line 150, second target: self.attention_scores = the second result
StoreAttentionScores(c, m) ==
    IF c.err # "" THEN c ELSE [c EXCEPT !.scores[m] = c.ret2]

\* line 151: (Batch, h, Seq_Len, d_k) --> (Batch, Seq_Len, d_model)
MergeHeads(c, m) ==
    IF c.err # "" THEN c
    ELSE View(Contiguous(Transpose(c, Last, 1, 2), Last), Last,
              <<ShapeOf(c, Last)[1], -1, mods[m].h * mods[m].d_k>>)

\* the second result of attention dropped, not kept on the block
MultiHeadAttentionBlockForwardNoStore(c, m, q, k, v, mask) ==
    Linear(MergeHeads(
               AttentionOfLocals(
                   SplitHeads(SplitHeads(SplitHeads(Projections(c, m, q, k, v),
                                                    m, "query"),
                                         m, "key"),
                              m, "value"),
                   m, mask),
               m),
           m, "w_o", Last, mods[m].d_model, mods[m].d_model)

MultiHeadAttentionBlockForward(c, m, q, k, v, mask) ==
    Linear(MergeHeads(
               StoreAttentionScores(
                   AttentionOfLocals(
                       SplitHeads(SplitHeads(SplitHeads(Projections(c, m, q, k, v),
                                                        m, "query"),
                                             m, "key"),
                                  m, "value"),
                       m, mask),
                   m),
               m),
           m, "w_o", Last, mods[m].d_model, mods[m].d_model)

\* the callables handed to a residual connection: the two lambdas of the
\* blocks, closed over their mask and encoder_output, and a module itself
SelfAttentionLambda(block, mask) ==
    [kind |-> "self", block |-> block, mask |-> mask, encoder_output |-> NoTensor]
CrossAttentionLambda(block, encoder_output, mask) ==
    [kind |-> "cross", block |-> block, mask |-> mask,
     encoder_output |-> encoder_output]
ModuleCallable(block) ==
    [kind |-> "module", block |-> block, mask |-> NoTensor,
     encoder_output |-> NoTensor]

Call(c, sublayer, x) ==
    IF sublayer.kind = "self"
    THEN MultiHeadAttentionBlockForward(c, sublayer.block, x, x, x, sublayer.mask)
    ELSE IF sublayer.kind = "cross"
    THEN MultiHeadAttentionBlockForward(c, sublayer.block, x,
             sublayer.encoder_output, sublayer.encoder_output, sublayer.mask)
    ELSE FeedForwardBlockForward(c, sublayer.block, x)

\* the normalized x added back, not x itself
ResidualConnectionForwardAddsNorm(c, m, x, sublayer) ==
    Binary(Dropout(Call(LayerNormalizationForward(c, mods[m].norm, x),
                        sublayer, Last),
                   Last, mods[m].dropout),
           "add", Len(c.tape) + 3, Last)

\* x + self.dropout(sublayer(self.norm(x)))
ResidualConnectionForward(c, m, x, sublayer) ==
    Binary(Dropout(Call(LayerNormalizationForward(c, mods[m].norm, x),
                        sublayer, Last),
                   Last, mods[m].dropout),
           "add", Arg(c, x), Last)

EncoderBlockForward(c, m, x, src_mask) ==
    ResidualConnectionForward(
        ResidualConnectionForward(c, mods[m].residual_connections[1], x,
            SelfAttentionLambda(mods[m].self_attention_block, src_mask)),
        mods[m].residual_connections[2], Last,
        ModuleCallable(mods[m].feed_forward_block))

RECURSIVE EncoderLayers(_, _, _, _)
EncoderLayers(c, layers, x, mask) ==
    IF layers = <<>> \/ c.err # "" THEN Return(c, x)
    ELSE EncoderLayers(EncoderBlockForward(c, Head(layers), x, mask),
                       Tail(layers), Last, mask)

EncoderForward(c, m, x, mask) ==
    LayerNormalizationForward(EncoderLayers(c, mods[m].layers, x, mask),
                              mods[m].norm, Last)

\* the two masks exchanged
DecoderBlockForwardSwappedMasks(c, m, x, encoder_output, src_mask, tgt_mask) ==
    ResidualConnectionForward(
        ResidualConnectionForward(
            ResidualConnectionForward(c, mods[m].residual_connection[1], x,
                SelfAttentionLambda(mods[m].self_attention_block, src_mask)),
            mods[m].residual_connection[2], Last,
            CrossAttentionLambda(mods[m].cross_attention_block,
                                 encoder_output, tgt_mask)),
        mods[m].residual_connection[3], Last,
        ModuleCallable(mods[m].feed_forward_block))

DecoderBlockForward(c, m, x, encoder_output, src_mask, tgt_mask) ==
    ResidualConnectionForward(
        ResidualConnectionForward(
            ResidualConnectionForward(c, mods[m].residual_connection[1], x,
                SelfAttentionLambda(mods[m].self_attention_block, tgt_mask)),
            mods[m].residual_connection[2], Last,
            CrossAttentionLambda(mods[m].cross_attention_block,
                                 encoder_output, src_mask)),
        mods[m].residual_connection[3], Last,
        ModuleCallable(mods[m].feed_forward_block))

RECURSIVE DecoderLayers(_, _, _, _, _, _)
DecoderLayers(c, layers, x, encoder_output, src_mask, tgt_mask) ==
    IF layers = <<>> \/ c.err # "" THEN Return(c, x)
    ELSE DecoderLayers(DecoderBlockForward(c, Head(layers), x, encoder_output,
                                           src_mask, tgt_mask),
                       Tail(layers), Last, encoder_output, src_mask, tgt_mask)

DecoderForward(c, m, x, encoder_output, src_mask, tgt_mask) ==
    LayerNormalizationForward(
        DecoderLayers(c, mods[m].layers, x, encoder_output, src_mask, tgt_mask),
        mods[m].norm, Last)

\* torch.log_softmax(self.proj(x), dim = -1)
ProjectionLayerForward(c, m, x) ==
    Elementwise(Linear(c, m, "proj", x, mods[m].d_model, mods[m].vocab_size),
                "log_softmax", "dim=-1", Last)

TransformerEncode(c, m, src, src_mask) ==
    EncoderForward(
        PositionalEncodingForward(
            InputEmbeddingForward(c, mods[m].src_embed, src),
            mods[m].src_pos, Last),
        mods[m].encoder, Last, src_mask)

TransformerDecode(c, m, encoder_output, src_mask, tgt, tgt_mask) ==
    DecoderForward(
        PositionalEncodingForward(
            InputEmbeddingForward(c, mods[m].tgt_embed, tgt),
            mods[m].tgt_pos, Last),
        mods[m].decoder, Last, encoder_output, src_mask, tgt_mask)

TransformerProject(c, m, x) ==
    ProjectionLayerForward(c, mods[m].projection_layer, x)

(***************************************************************************)
(* MultiHeadAttentionBlock.attention on numbers, for one batch entry and   *)
(* one head: query, key and value are sequences of rows of whole numbers,  *)
(* the scores are whole numbers (d_k a perfect square), the weights are in *)
(* thousandths.  A mask is a matrix of 0 and 1, or NoMask.                 *)
(***************************************************************************)
FillValue == -1000000000

NoMask == <<>>

RECURSIVE Dot(_, _)
Dot(a, b) ==
    IF a = <<>> THEN 0 ELSE Head(a) * Head(b) + Dot(Tail(a), Tail(b))

\* math.sqrt on a perfect square
Sqrt(n) == CHOOSE r \in 0 .. n : r * r <= n /\ (r + 1) * (r + 1) > n

\* (query @ key.transpose(-2,-1)) / math.sqrt(d_k)
ScaledScores(query, key) ==
    LET d_k == Len(query[1])
    IN  [i \in 1 .. Len(query) |->
            [j \in 1 .. Len(key) |-> Dot(query[i], key[j]) \div Sqrt(d_k)]]

\* masked positions filled with 0, not with -1e9
MaskedFillZero(scores, mask) ==
    [i \in DOMAIN scores |->
        [j \in DOMAIN scores[i] |->
            IF mask[i][j] = 0 THEN 0 ELSE scores[i][j]]]

\* attention_scores.masked_fill_(mask == 0, -1e9)
MaskedFill(scores, mask) ==
    [i \in DOMAIN scores |->
        [j \in DOMAIN scores[i] |->
            IF mask[i][j] = 0 THEN FillValue ELSE scores[i][j]]]

RECURSIVE ExpWhole(_, _)
\* acc * e^(-n) for a whole n >= 0: it underflows to 0
ExpWhole(acc, n) ==
    IF acc = 0 \/ n = 0 THEN acc ELSE ExpWhole((acc * 368) \div Unit, n - 1)

RECURSIVE RowMax(_)
RowMax(row) ==
    IF Len(row) = 1 THEN row[1] ELSE Max(Head(row), RowMax(Tail(row)))

RECURSIVE RowSum(_)
RowSum(row) == IF row = <<>> THEN 0 ELSE Head(row) + RowSum(Tail(row))

\* softmax over the last dimension: exp(x - max) normalised
SoftmaxRow(row) ==
    LET e == [j \in DOMAIN row |-> ExpWhole(Unit, RowMax(row) - row[j])]
    IN  [j \in DOMAIN row |-> (e[j] * Unit) \div RowSum(e)]

Softmax(scores) == [i \in DOMAIN scores |-> SoftmaxRow(scores[i])]

\* nn.Dropout on numbers: the key positions in dropped are zeroed and the
\* others scaled by 1 / (1 - p), p in percent
DropoutValues(w, dropout) ==
    IF ~dropout.training \/ dropout.p = 0 THEN w
    ELSE [i \in DOMAIN w |->
            [j \in DOMAIN w[i] |->
                IF j \in dropout.dropped THEN 0
                ELSE (w[i][j] * 100) \div (100 - dropout.p)]]

MatrixMinus(a, b) ==
    [i \in DOMAIN a |-> [j \in DOMAIN a[i] |-> a[i][j] - b[i][j]]]

\* attention_scores @ value
WeightedValues(w, value) ==
    [i \in DOMAIN w |->
        [t \in DOMAIN value[1] |->
            RowSum([j \in DOMAIN w[i] |-> w[i][j] * value[j][t]])]]

\* the softmax output as line 129 leaves it in attention_scores
AttentionWeights(query, key, mask) ==
    LET scaled == ScaledScores(query, key)
    IN  Softmax(IF mask # NoMask THEN MaskedFill(scaled, mask) ELSE scaled)

\* the dropout result bound to attention_scores
AttentionValuesAssigned(query, key, value, mask, dropout) ==
    LET softmax == AttentionWeights(query, key, mask)
        attention_scores_ == IF dropout.none THEN softmax
                             ELSE DropoutValues(softmax, dropout)
    IN  [x |-> WeightedValues(attention_scores_, value),
         attention_scores |-> attention_scores_,
         unused |-> <<>>]

\* lines 130-131: the expression statement is evaluated and its value
\* dropped; attention_scores stays bound to the softmax output
AttentionValues(query, key, value, mask, dropout) ==
    LET attention_scores_ == AttentionWeights(query, key, mask)
        unused == IF dropout.none THEN <<>>
                  ELSE MatrixMinus(attention_scores_,
                                   DropoutValues(attention_scores_, dropout))
    IN  [x |-> WeightedValues(attention_scores_, value),
         attention_scores |-> attention_scores_,
         unused |-> unused]

(***************************************************************************)
(* The program: build_transformer from its arguments to its outcome, then  *)
(* any sequence of train()/eval() and forward calls on the model built.    *)
(***************************************************************************)
NoScores == [call |-> 0, shape |-> <<>>]

Init ==
    /\ pc = "args"
    /\ args \in BuildArgs
    /\ mods = <<>>
    /\ transformer = NoModule
    /\ error = ""
    /\ training = TRUE
    /\ rng = 0
    /\ attention_scores = <<>>
    /\ last = NoCall
    /\ ncalls = 0
    /\ att_in = NoAttention
    /\ att_out = NoAttention

Build ==
    /\ pc = "args"
    /\ LET st == BuildTransformer(args)
       IN  IF st.err = ""
           THEN /\ pc' = "built"
                /\ mods' = st.mods
                /\ transformer' = Newest(st)
                /\ error' = ""
                /\ attention_scores' = [m \in 1 .. Len(st.mods) |-> NoScores]
           ELSE /\ pc' = "failed"
                /\ mods' = <<>>
                /\ transformer' = NoModule
                /\ error' = st.err
                /\ attention_scores' = <<>>
    /\ UNCHANGED <<args, training, rng, last, ncalls, attVars>>

\* nn.Module.train() and nn.Module.eval() on the whole model
SetTraining(mode) ==
    /\ pc = "built"
    /\ ncalls < MaxCalls
    /\ training # mode
    /\ training' = mode
    /\ UNCHANGED <<pc, buildVars, rng, attention_scores, last, ncalls, attVars>>

NewContext ==
    [tape |-> <<>>, rng |-> rng, scores |-> [m \in 1 .. Len(mods) |-> NoTensor],
     err |-> "", ret |-> NoTensor, ret2 |-> NoTensor,
     local |-> [query |-> NoTensor, key |-> NoTensor, value |-> NoTensor],
     training |-> training]

\* what a forward call leaves behind: the generator advanced, the
\* attention_scores attributes it assigned, and (for the record) the call
Finish(c, fn, inputs) ==
    /\ rng' = c.rng
    /\ attention_scores' =
          [m \in DOMAIN attention_scores |->
              IF c.scores[m] # NoTensor
              THEN [call |-> ncalls + 1, shape |-> c.tape[c.scores[m]].shape]
              ELSE attention_scores[m]]
    /\ last' = [fn |-> fn, training |-> training, inputs |-> inputs,
                err |-> c.err, out |-> IF c.err = "" THEN c.ret ELSE NoTensor,
                tape |-> c.tape, scores |-> c.scores]
    /\ ncalls' = ncalls + 1
    /\ UNCHANGED <<pc, buildVars, training, attVars>>

\* a mask the caller passes, or None
MaskInput(c, name, given, shape) ==
    IF given THEN Input(c, name, shape) ELSE Return(c, NoTensor)

\* model.encode(src, src_mask) on tensors of the caller
EncodeCall(c, batch, seq_len, masked) ==
    LET src == Input(c, "src", <<batch, seq_len>>)
        src_mask == MaskInput(src, "src_mask", masked, <<batch, 1, 1, seq_len>>)
    IN  TransformerEncode(src_mask, transformer, src.ret, src_mask.ret)

\* model.decode(encoder_output, src_mask, tgt, tgt_mask)
DecodeCall(c, batch, src_len, tgt_len, masked) ==
    LET encoder_output == Input(c, "encoder_output", <<batch, src_len, args.d_model>>)
        src_mask == MaskInput(encoder_output, "src_mask", masked,
                              <<batch, 1, 1, src_len>>)
        tgt == Input(src_mask, "tgt", <<batch, tgt_len>>)
        tgt_mask == MaskInput(tgt, "tgt_mask", masked, <<batch, 1, tgt_len, tgt_len>>)
    IN  TransformerDecode(tgt_mask, transformer, encoder_output.ret, src_mask.ret,
                          tgt.ret, tgt_mask.ret)

\* model.project(x)
ProjectCall(c, batch, seq_len) ==
    LET x == Input(c, "x", <<batch, seq_len, args.d_model>>)
    IN  TransformerProject(x, transformer, x.ret)

Encode(batch, seq_len, masked) ==
    /\ pc = "built"
    /\ ncalls < MaxCalls
    /\ Finish(EncodeCall(NewContext, batch, seq_len, masked), "encode",
              [batch |-> batch, src_len |-> seq_len, tgt_len |-> 0,
               masked |-> masked])

Decode(batch, src_len, tgt_len, masked) ==
    /\ pc = "built"
    /\ ncalls < MaxCalls
    /\ Finish(DecodeCall(NewContext, batch, src_len, tgt_len, masked), "decode",
              [batch |-> batch, src_len |-> src_len, tgt_len |-> tgt_len,
               masked |-> masked])

Project(batch, seq_len) ==
    /\ pc = "built"
    /\ ncalls < MaxCalls
    /\ Finish(ProjectCall(NewContext, batch, seq_len), "project",
              [batch |-> batch, src_len |-> 0, tgt_len |-> seq_len,
               masked |-> FALSE])

Next ==
    \/ Build
    \/ \E mode \in BOOLEAN : SetTraining(mode)
    \/ \E batch \in Batches, seq_len \in 1 .. MaxSeqLen + 1, masked \in BOOLEAN :
          Encode(batch, seq_len, masked)
    \/ \E batch \in Batches, src_len \in 1 .. MaxSeqLen,
          tgt_len \in 1 .. MaxSeqLen + 1 :
          Decode(batch, src_len, tgt_len, TRUE)
    \/ \E batch \in Batches, seq_len \in 1 .. MaxSeqLen :
          Project(batch, seq_len)

Spec == Init /\ [][Next]_vars

(***************************************************************************)
(* attention applied to bounded inputs.                                    *)
(***************************************************************************)
HeadSizes == {1, 4}
QueryValues == {1, 2}
KeyValues == {-1, 1}

\* a row of d_k equal entries
Row(d_k, a) == [t \in 1 .. d_k |-> a]

AttentionDropouts ==
    {[none |-> TRUE, p |-> 0, training |-> FALSE, dropped |-> {}]}
    \cup {[none |-> FALSE, p |-> p, training |-> t, dropped |-> d] :
            p \in DropoutRates, t \in BOOLEAN, d \in {{}, {1}, 1 .. MaxAttnLen}}

AttentionInputs ==
    UNION {
        {[query |-> [i \in 1 .. n |-> Row(d_k, a)],
          key |-> [j \in 1 .. n |-> Row(d_k, kv[j])],
          value |-> [j \in 1 .. n |-> Row(d_k, j)],
          mask |-> m, dropout |-> dr] :
            a \in QueryValues, kv \in [1 .. n -> KeyValues],
            m \in [1 .. n -> [1 .. n -> {0, 1}]] \cup {NoMask},
            dr \in AttentionDropouts} :
        n \in 1 .. MaxAttnLen, d_k \in HeadSizes}

InitAttn ==
    /\ pc = "attention"
    /\ att_in \in AttentionInputs
    /\ att_out = NoAttention
    /\ args = [d_model |-> 0]
    /\ mods = <<>>
    /\ transformer = NoModule
    /\ error = ""
    /\ training = TRUE
    /\ rng = 0
    /\ attention_scores = <<>>
    /\ last = NoCall
    /\ ncalls = 0

RunAttention ==
    /\ pc = "attention"
    /\ pc' = "attended"
    /\ att_out' = AttentionValues(att_in.query, att_in.key, att_in.value,
                                  att_in.mask, att_in.dropout)
    /\ UNCHANGED <<att_in, buildVars, fwdVars>>

NextAttn == RunAttention

SpecAttn == InitAttn /\ [][NextAttn]_vars

(***************************************************************************)
(* Claims about construction.                                              *)
(***************************************************************************)
Returned == pc \in {"built", "failed"}

\* C1: build_transformer succeeds if and only if d_model % h = 0, and fails
\* with the assertion of MultiHeadAttentionBlock otherwise, whatever the
\* depth N >= 0 and whether d_model is odd or even.
C1_BuildSucceedsIffDivisible ==
    Returned =>
        IF args.d_model % args.h = 0
        THEN pc = "built"
        ELSE pc = "failed" /\ error = "AssertionError"

\* row 0 of a positional table: 0 at the even feature indices, 1 at the odd
PositionZeroRow(pe, d_model) ==
    \A i \in 0 .. d_model - 1 : pe[0][i] = IF i % 2 = 0 THEN 0 ELSE Unit

\* C5: for any seq_len >= 1 and any d_model PositionalEncoding.__init__
\* leaves a table of shape (seq_len, d_model) whose row for position 0 is
\* 0 at every even feature index and 1 at every odd one.
C5_PositionZeroRow ==
    Returned =>
        LET st == PositionalEncoding([mods |-> <<>>, err |-> ""], args.d_model,
                                     args.src_seq_len, args.dropout)
        IN  /\ st.err = ""
            /\ DOMAIN st.mods[1].pe = 0 .. args.src_seq_len - 1
            /\ \A position \in 0 .. args.src_seq_len - 1 :
                  DOMAIN st.mods[1].pe[position] = 0 .. args.d_model - 1
            /\ PositionZeroRow(st.mods[1].pe, args.d_model)

(***************************************************************************)
(* Claims about the forward calls.                                         *)
(***************************************************************************)
Called(fn) == pc = "built" /\ last.fn = fn

Succeeded(fn) == Called(fn) /\ last.err = ""

OutShape == last.tape[last.out].shape

\* C2: encode on a source of shape (batch, seq_len), seq_len within the
\* positional table, returns a tensor of shape (batch, seq_len, d_model);
\* and whenever encode returns at all, that is the shape of its result.
C2_EncodeShape ==
    Called("encode") =>
        /\ last.inputs.src_len <= args.src_seq_len => last.err = ""
        /\ last.err = "" =>
              OutShape = <<last.inputs.batch, last.inputs.src_len, args.d_model>>

C2_Witness ==
    /\ Succeeded("encode")
    /\ args.d_model = 4 /\ args.h = 2 /\ args.N = 2
    /\ last.inputs.batch = 2 /\ last.inputs.src_len = 2 /\ last.inputs.masked
    /\ OutShape = <<2, 2, 4>>

\* encode on a model in evaluation mode that has made no call yet
FreshEvalContext == [NewContext EXCEPT !.rng = 0, !.training = FALSE]

\* C4: in evaluation mode the result of encode is the one a fresh model
\* with the same parameters gives for the same (src, src_mask), whatever
\* calls came before; so any two such calls return identical outputs.
C4_EncodeRepeatable ==
    (Called("encode") /\ ~last.training) =>
        LET r == EncodeCall(FreshEvalContext, last.inputs.batch,
                            last.inputs.src_len, last.inputs.masked)
        IN  /\ last.err = r.err
            /\ last.tape = r.tape
            /\ last.err = "" => last.out = r.ret

C4_Witness ==
    /\ Succeeded("encode") /\ ~last.training
    /\ ncalls = 2 /\ rng > 0 /\ args.N > 0
    /\ \E m \in DOMAIN attention_scores : attention_scores[m].call = 1

(***************************************************************************)
(* Reading the tape of the last call.                                      *)
(***************************************************************************)
Tape == last.tape

NodesOf(op) == {i \in DOMAIN Tape : Tape[i].op = op}

LinearNodes(m, attr) ==
    {i \in NodesOf("linear") : Tape[i].mod = m /\ Tape[i].attr = attr}

NormNodes(m) == {i \in NodesOf("layer_norm") : Tape[i].mod = m}

InputNodes(name) == {i \in NodesOf("input") : Tape[i].attr = name}

RECURSIVE Origin(_)
\* the tensor a chain of view, transpose and contiguous starts from
Origin(i) ==
    IF Tape[i].op \in {"view", "transpose", "contiguous"}
    THEN Origin(Tape[i].args[1]) ELSE i

\* the tensor dropout was applied to, or the tensor itself
Undropped(i) == IF Tape[i].op = "dropout" THEN Tape[i].args[1] ELSE i

\* the scaled scores a softmax or masked_fill_ node works on
ScaledNode(i) ==
    IF Tape[i].op = "softmax" THEN
        IF Tape[Tape[i].args[1]].op = "masked_fill_"
        THEN Tape[Tape[i].args[1]].args[1] ELSE Tape[i].args[1]
    ELSE Tape[i].args[1]

\* the linear projection the query of those scores comes from
QueryProjection(i) == Origin(Tape[Tape[ScaledNode(i)].args[1]].args[1])

\* the softmax outputs of attention block m in the last call
SoftmaxNodes(m) ==
    {i \in NodesOf("softmax") : QueryProjection(i) \in LinearNodes(m, "w_q")}

\* the masks attention block m filled its scores with
MaskNodes(m) ==
    {Tape[Tape[i].args[2]].args[1] :
        i \in {j \in NodesOf("masked_fill_") :
                  QueryProjection(j) \in LinearNodes(m, "w_q")}}

\* residual connection r wraps a sublayer that starts at the linear nodes
\* `entry` and ends at the linear nodes `exit`: norm once on x, the sublayer
\* once on the norm, and x + dropout(sublayer output) once
PreNorm(r, entry, exit) ==
    \E n \in NormNodes(mods[r].norm), e \in entry, o \in exit, a \in NodesOf("add") :
        /\ NormNodes(mods[r].norm) = {n}
        /\ entry = {e} /\ exit = {o}
        /\ Tape[e].args = <<n>>
        /\ n < e /\ e < o /\ o < a
        /\ Tape[a].args[1] = Tape[n].args[1]
        /\ Undropped(Tape[a].args[2]) = o
        /\ last.training =>
              /\ Tape[Tape[a].args[2]].op = "dropout"
              /\ Tape[a].args[2] > o
        /\ \A b \in NodesOf("add") : Undropped(Tape[b].args[2]) = o => b = a

\* the add node that closes residual connection r
ResidualSum(r) ==
    CHOOSE a \in NodesOf("add") :
        \E n \in NormNodes(mods[r].norm) :
            a > n /\ Tape[a].args[1] = Tape[n].args[1]

TheEncoder == mods[mods[transformer].encoder]
TheDecoder == mods[mods[transformer].decoder]
EncoderBlockAt(b) == mods[TheEncoder.layers[b]]
DecoderBlockAt(b) == mods[TheDecoder.layers[b]]

(***************************************************************************)
(* C6: state kept across forward calls.                                    *)
(***************************************************************************)
WritingOps == {"masked_fill_"}

\* no in-place write of the last call lands in a tensor of the caller or
\* in a parameter or buffer of the model
WritesStayLocal ==
    last.fn # "none" =>
        \A i \in DOMAIN Tape : Tape[i].op \in WritingOps => Tape[i].owner = "call"

ParametersUntouched == mods = BuildTransformer(args).mods

DecoderBlockWired(b) ==
    LET blk == DecoderBlockAt(b)
        sa == blk.self_attention_block
        ca == blk.cross_attention_block
        ff == blk.feed_forward_block
        rc == blk.residual_connection
    IN  /\ PreNorm(rc[1], LinearNodes(sa, "w_q"), LinearNodes(sa, "w_o"))
        /\ PreNorm(rc[2], LinearNodes(ca, "w_q"), LinearNodes(ca, "w_o"))
        /\ PreNorm(rc[3], LinearNodes(ff, "linear_1"), LinearNodes(ff, "linear_2"))
        \* self-attention, then cross-attention, then feed-forward, each on
        \* the sum the one before it returned
        /\ \E n2 \in NormNodes(mods[rc[2]].norm), n3 \in NormNodes(mods[rc[3]].norm) :
              /\ Tape[n2].args[1] = ResidualSum(rc[1])
              /\ Tape[n3].args[1] = ResidualSum(rc[2])
              /\ ResidualSum(rc[1]) < n2 /\ ResidualSum(rc[2]) < n3
        \* self-attention: query, key and value are the normalized state
        /\ \E n1 \in NormNodes(mods[rc[1]].norm) :
              \A attr \in {"w_q", "w_k", "w_v"} :
                  \E i \in LinearNodes(sa, attr) :
                      LinearNodes(sa, attr) = {i} /\ Tape[i].args = <<n1>>
        /\ MaskNodes(sa) = InputNodes("tgt_mask")
        \* cross-attention: key and value are the encoder output as passed in
        /\ \A attr \in {"w_k", "w_v"} :
              \E i \in LinearNodes(ca, attr), eo \in InputNodes("encoder_output") :
                  LinearNodes(ca, attr) = {i} /\ Tape[i].args = <<eo>>
        /\ MaskNodes(ca) = InputNodes("src_mask")

\* C7: in every decoder block of a decode call the sublayers run in the
\* order self-attention, cross-attention, feed-forward, each through its
\* own residual connection; self-attention has the normalized state as
\* query, key and value with tgt_mask; cross-attention has it as query and
\* the encoder output as key and value with src_mask.
C7_DecoderBlockWiring ==
    Succeeded("decode") =>
        /\ Cardinality(InputNodes("encoder_output")) = 1
        /\ Cardinality(InputNodes("src_mask")) = 1
        /\ Cardinality(InputNodes("tgt_mask")) = 1
        /\ \A b \in 1 .. Len(TheDecoder.layers) : DecoderBlockWired(b)

C7_Witness ==
    /\ Succeeded("decode") /\ args.N = 2 /\ args.h = 2
    /\ last.inputs.src_len = 1 /\ last.inputs.tgt_len = 2
    /\ DecoderBlockWired(2)

(***************************************************************************)
(* C8: the residual connections.                                           *)
(***************************************************************************)
EncoderBlockWired(b) ==
    LET blk == EncoderBlockAt(b)
        sa == blk.self_attention_block
        ff == blk.feed_forward_block
        rc == blk.residual_connections
    IN  /\ PreNorm(rc[1], LinearNodes(sa, "w_q"), LinearNodes(sa, "w_o"))
        /\ PreNorm(rc[2], LinearNodes(ff, "linear_1"), LinearNodes(ff, "linear_2"))

DecoderBlockResiduals(b) ==
    LET blk == DecoderBlockAt(b)
        sa == blk.self_attention_block
        ca == blk.cross_attention_block
        ff == blk.feed_forward_block
        rc == blk.residual_connection
    IN  /\ PreNorm(rc[1], LinearNodes(sa, "w_q"), LinearNodes(sa, "w_o"))
        /\ PreNorm(rc[2], LinearNodes(ca, "w_q"), LinearNodes(ca, "w_o"))
        /\ PreNorm(rc[3], LinearNodes(ff, "linear_1"), LinearNodes(ff, "linear_2"))

\* the residual connections of block l: an encoder block keeps them in
\* residual_connections, a decoder block in residual_connection
ResidualsOfBlock(l) ==
    IF mods[l].cls = "EncoderBlock" THEN mods[l].residual_connections
    ELSE mods[l].residual_connection

AllResiduals ==
    UNION {{ResidualsOfBlock(l)[k] : k \in DOMAIN ResidualsOfBlock(l)} :
           l \in {TheEncoder.layers[b] : b \in DOMAIN TheEncoder.layers} \cup
                 {TheDecoder.layers[b] : b \in DOMAIN TheDecoder.layers}}

\* C8: every sublayer of every encoder and decoder block is applied as
\* x + dropout(sublayer(norm(x))), with the norm on the sublayer's input
\* only, the un-normalized x added back and the sublayer invoked once;
\* every residual connection has a normalization of its own, 2 per encoder
\* block and 3 per decoder block.
C8_PreNormResidual ==
    /\ pc = "built" =>
          /\ \A b \in DOMAIN TheEncoder.layers :
                Len(EncoderBlockAt(b).residual_connections) = 2
          /\ \A b \in DOMAIN TheDecoder.layers :
                Len(DecoderBlockAt(b).residual_connection) = 3
          /\ Cardinality(AllResiduals) = 5 * args.N
          /\ \A r \in AllResiduals :
                /\ mods[r].cls = "ResidualConnection"
                /\ mods[mods[r].norm].cls = "LayerNormalization"
          /\ Cardinality({mods[r].norm : r \in AllResiduals}) = 5 * args.N
    /\ Succeeded("encode") =>
          \A b \in DOMAIN TheEncoder.layers : EncoderBlockWired(b)
    /\ Succeeded("decode") =>
          \A b \in DOMAIN TheDecoder.layers : DecoderBlockResiduals(b)

C8_Witness ==
    /\ Succeeded("encode") /\ last.training /\ args.N = 2
    /\ EncoderBlockWired(2)
    /\ NodesOf("dropout") # {}
    /\ Cardinality(AllResiduals) = 10

(***************************************************************************)
(* C9: N independent blocks, run in list order, one final norm.            *)
(***************************************************************************)
EncoderBlockIds == {TheEncoder.layers[b] : b \in DOMAIN TheEncoder.layers}
DecoderBlockIds == {TheDecoder.layers[b] : b \in DOMAIN TheDecoder.layers}

AttentionIds ==
    {mods[l].self_attention_block : l \in EncoderBlockIds \cup DecoderBlockIds}
    \cup {mods[l].cross_attention_block : l \in DecoderBlockIds}

FeedForwardIds ==
    {mods[l].feed_forward_block : l \in EncoderBlockIds \cup DecoderBlockIds}

NormIds ==
    {mods[r].norm : r \in AllResiduals} \cup {TheEncoder.norm, TheDecoder.norm}

NothingShared ==
    /\ Len(TheEncoder.layers) = args.N
    /\ Len(TheDecoder.layers) = args.N
    /\ Cardinality(EncoderBlockIds) = args.N
    /\ Cardinality(DecoderBlockIds) = args.N
    /\ EncoderBlockIds \cap DecoderBlockIds = {}
    /\ Cardinality(AttentionIds) = 3 * args.N
    /\ Cardinality(FeedForwardIds) = 2 * args.N
    /\ Cardinality(NormIds) = 5 * args.N + 2
    /\ \A l \in DecoderBlockIds :
          mods[l].self_attention_block # mods[l].cross_attention_block
    /\ \A m \in AttentionIds : mods[m].cls = "MultiHeadAttentionBlock"
    /\ \A m \in FeedForwardIds : mods[m].cls = "FeedForwardBlock"
    /\ \A m \in NormIds : mods[m].cls = "LayerNormalization"

\* the sum of the embedding and the positional table, after its dropout
PositionalOutput ==
    LET sum == CHOOSE a \in NodesOf("add") :
                   Tape[Tape[a].args[2]].op = "requires_grad_"
    IN  IF \E d \in NodesOf("dropout") : Tape[d].args = <<sum>>
        THEN CHOOSE d \in NodesOf("dropout") : Tape[d].args = <<sum>>
        ELSE sum

\* the input of block b of a stack: the positional output for the first,
\* the output of the block before it for the others
BlockInput(layers, b) ==
    IF b = 1 THEN PositionalOutput
    ELSE LET rc == ResidualsOfBlock(layers[b - 1])
         IN  ResidualSum(rc[Len(rc)])

InListOrder(layers, final_norm) ==
    /\ \A b \in DOMAIN layers :
          \E n \in NormNodes(mods[ResidualsOfBlock(layers[b])[1]].norm) :
              /\ NormNodes(mods[ResidualsOfBlock(layers[b])[1]].norm) = {n}
              /\ Tape[n].args[1] = BlockInput(layers, b)
    /\ NormNodes(final_norm) = {last.out}
    /\ last.out = Len(Tape)
    /\ Tape[last.out].args[1] = BlockInput(layers, Len(layers) + 1)

\* C9: the encoder and the decoder have N blocks each; no attention,
\* feed-forward or normalization module is shared between two blocks,
\* between the two attention blocks of a decoder block or between encoder
\* and decoder; the forward passes run the blocks in list order and then
\* the final normalization once, after the last block.
C9_IndependentBlocksInOrder ==
    /\ pc = "built" => NothingShared
    /\ Succeeded("encode") => InListOrder(TheEncoder.layers, TheEncoder.norm)
    /\ Succeeded("decode") => InListOrder(TheDecoder.layers, TheDecoder.norm)

C9_Witness ==
    /\ Succeeded("decode") /\ args.N = 2 /\ NothingShared
    /\ InListOrder(TheDecoder.layers, TheDecoder.norm)
    /\ Cardinality(AttentionIds) = 6

(***************************************************************************)
(* Claims about MultiHeadAttentionBlock.attention, under SpecAttn.         *)
(***************************************************************************)
Attended == pc = "attended"

KeysOf(i) == DOMAIN att_out.attention_scores[i]

MaskedAt(i, j) == att_in.mask # NoMask /\ att_in.mask[i][j] = 0

FullyMasked(i) == \A j \in KeysOf(i) : MaskedAt(i, j)

\* C3: for every mask, fully masked rows included, every key position with
\* mask = 0 has attention weight 0 (in thousandths) after the softmax.
C3_MaskedWeightsVanish ==
    Attended =>
        \A i \in DOMAIN att_out.attention_scores : \A j \in KeysOf(i) :
            MaskedAt(i, j) => att_out.attention_scores[i][j] = 0

\* C3 as amended: in a query row with at least one unmasked key the masked
\* positions have weight 0 and the unmasked ones carry the whole weight;
\* in a fully masked row every position has the same weight 1/n.
C3_MaskedWeightsVanishInOpenRows ==
    Attended =>
        \A i \in DOMAIN att_out.attention_scores :
            IF FullyMasked(i)
            THEN \A j \in KeysOf(i) :
                    att_out.attention_scores[i][j] = Unit \div Cardinality(KeysOf(i))
            ELSE /\ \A j \in KeysOf(i) :
                       MaskedAt(i, j) => att_out.attention_scores[i][j] = 0
                 /\ RowSum([j \in KeysOf(i) |->
                              IF MaskedAt(i, j) THEN 0
                              ELSE att_out.attention_scores[i][j]])
                       >= Unit - Cardinality(KeysOf(i))

C3_Witness ==
    /\ Attended
    /\ att_in.mask = <<<<1, 0>>, <<0, 0>>>>
    /\ att_in.key = <<Row(4, -1), Row(4, 1)>>
    /\ att_out.attention_scores = <<<<Unit, 0>>, <<Unit \div 2, Unit \div 2>>>>

\* C10: whatever dropout layer is passed (mode, rate, random outcome), the
\* weights attention returns and the weights it multiplies with the values
\* are the softmax output, as when dropout is None.
C10_AttentionDropoutNoEffect ==
    Attended =>
        LET plain == AttentionValues(att_in.query, att_in.key, att_in.value,
                                     att_in.mask,
                                     [none |-> TRUE, p |-> 0,
                                      training |-> FALSE, dropped |-> {}])
            softmax == AttentionWeights(att_in.query, att_in.key, att_in.mask)
        IN  /\ att_out.attention_scores = softmax
            /\ att_out.x = WeightedValues(softmax, att_in.value)
            /\ att_out.attention_scores = plain.attention_scores
            /\ att_out.x = plain.x

C10_Witness ==
    /\ Attended
    /\ ~att_in.dropout.none /\ att_in.dropout.training
    /\ att_in.dropout.p > 0 /\ att_in.dropout.dropped = {1}
    /\ Len(att_in.key) = 2
    /\ \E i \in DOMAIN att_out.unused : att_out.unused[i][1] > 0
    /\ \E i \in DOMAIN att_out.attention_scores : att_out.attention_scores[i][1] > 0

=============================================================================
